---- MODULE Spec2Model ----
(***************************************************************************)
(* State-machine model of the ISA impact simulation engine                 *)
(* (src/impact_isa_model.py): Year, Student, Contract, InvestmentPool and  *)
(* the period loop of simulate_impact.                                     *)
(*                                                                         *)
(* Number representation.  The program computes in floating point; the     *)
(* model computes in exact integers:                                       *)
(*   - money is in whole currency units, products are rounded down;        *)
(*   - every rate (isa_percentage, inflation, unemployment, growth,        *)
(*     home_prob) and the deflator are in units of 1/RateScale, so         *)
(*     0.12 is 120 and a deflator of 1 is 1000;                            *)
(*   - Contract.current_value is kept in tenths of a unit (CvScale).       *)
(* A random draw is a nondeterministic choice: Bernoulli(p) is decided     *)
(* when p is 0 or 1, a Normal(m, s) draw is m when s = 0 and one of        *)
(* m - s, m, m + s otherwise.                                              *)
(* Reporting-only fields (peak_earnings, unemployment_spells, current_age) *)
(* are not part of the state.                                              *)
(***************************************************************************)
EXTENDS Integers, Sequences, FiniteSets, TLC

(* ---------------------------------------------------------------------- *)
(* Bounds of the model                                                     *)
(* ---------------------------------------------------------------------- *)

\* Size of the initial cohort.  The program enrols 60 students
\* (simulate_impact, `for i in range(60)`); the model enrols NumInitial.
NumInitial == 2

\* Number of Year.next_year calls made on one Year object.
MaxAdvances == 3

\* Number of students of a simulate_simple run
NumSimple == 2

(* ---------------------------------------------------------------------- *)
(* Program constants                                                       *)
(* ---------------------------------------------------------------------- *)

RateScale == 1000
CvScale == 10
NoneVal == -999999
StartingAge == 22
LifeExpectancyTenths == 814
YearsPaidCap == 10
DefaultSpell == 2
ReinvestCutoff == 15
ReservePct == 2
DefaultThreshold == 27000
MaxMultipleNum == 3
MaxMultipleDen == 2
MinEarningsPower == 100

Reasons == {"payment_cap", "years_cap", "home_return", "default"}

Min(a, b) == IF a <= b THEN a ELSE b
Max(a, b) == IF a >= b THEN a ELSE b

RECURSIVE SumSeq(_)
SumSeq(q) == IF q = <<>> THEN 0 ELSE q[1] + SumSeq(Tail(q))

Zeros(n) == [k \in 1..n |-> 0]
Falses(n) == [k \in 1..n |-> FALSE]

\* Python int(a / b): float division truncated toward zero (b # 0).
TruncDiv(a, b) ==
  LET q == (IF a >= 0 THEN a ELSE -a) \div (IF b >= 0 THEN b ELSE -b)
  IN IF (a >= 0) = (b >= 0) THEN q ELSE -q

\* x * deflator and x / deflator
TimesDeflator(x, d) == (x * d) \div RateScale
OverDeflator(x, d) == (x * RateScale) \div d

(* ---------------------------------------------------------------------- *)
(* Random draws                                                            *)
(* ---------------------------------------------------------------------- *)

\* z-scores of a Normal(m, s) draw
ZSet(std) == IF std = 0 THEN {0} ELSE {-1, 0, 1}
NormalDraw(mean, std, z) == mean + z * std

\* np.random.binomial(1, 1 - unemployment_rate) == 1
EmpDraws(u) == IF u <= 0 THEN {TRUE} ELSE IF u >= RateScale THEN {FALSE} ELSE BOOLEAN

\* np.random.random() < home_prob, random() in [0, 1)
HomeDraws_Inverted(home_prob) ==
  IF home_prob >= RateScale THEN {FALSE} ELSE IF home_prob <= 0 THEN {TRUE} ELSE BOOLEAN
HomeDraws(home_prob) ==
  IF home_prob >= RateScale THEN {TRUE} ELSE IF home_prob <= 0 THEN {FALSE} ELSE BOOLEAN

\* _calculate_graduation_delay: the possible totals of years to complete
GraduationDelays(base, name) ==
  IF name \in {"MA", "NURSE", "TRADE"} THEN base..(base + 3) ELSE base..(base + 4)

(* ---------------------------------------------------------------------- *)
(* Year                                                                    *)
(* ---------------------------------------------------------------------- *)

NewYear(infl, unemp, cap, thr) ==
  [year_count |-> 1,
   inflation_rate |-> infl, stable_inflation_rate |-> infl,
   unemployment_rate |-> unemp, stable_unemployment_rate |-> unemp,
   isa_cap |-> cap, isa_threshold |-> thr, deflator |-> RateScale]

\* x * (1 + rate)
TimesRate(x, rate) == (x * (RateScale + rate)) \div RateScale

Clamp(lo, hi, x) == Max(lo, Min(hi, x))

\* The draws of next_year, in 1/RateScale: np.random.normal(0, .01) and the
\* lognormal unemployment shocks of the two models.
InflationShocks == {-30, 0, 10}
UnemploymentShocks == {18, 200}
SimpleUnemploymentShocks == {10, 300}

\* Year.next_year of impact_isa_model.py
NextYear_StaleRate(yr, shock, ushock) ==
  LET infl == (yr.stable_inflation_rate * 450 + yr.inflation_rate * 500) \div RateScale
                + shock
      unemp == Clamp(20, 150,
                     (yr.stable_unemployment_rate * 700 + yr.unemployment_rate * 200)
                       \div RateScale + ushock)
  IN [yr EXCEPT !.year_count = yr.year_count + 1,
                !.inflation_rate = infl,
                !.unemployment_rate = unemp,
                !.isa_cap = TimesRate(yr.isa_cap, yr.inflation_rate),
                !.isa_threshold = TimesRate(yr.isa_threshold, infl),
                !.deflator = TimesRate(yr.deflator, infl)]
NextYear(yr, shock, ushock) ==
  LET infl == (yr.stable_inflation_rate * 450 + yr.inflation_rate * 500) \div RateScale
                + shock
      unemp == Clamp(20, 150,
                     (yr.stable_unemployment_rate * 700 + yr.unemployment_rate * 200)
                       \div RateScale + ushock)
  IN [yr EXCEPT !.year_count = yr.year_count + 1,
                !.inflation_rate = infl,
                !.unemployment_rate = unemp,
                !.isa_cap = TimesRate(yr.isa_cap, infl),
                !.isa_threshold = TimesRate(yr.isa_threshold, infl),
                !.deflator = TimesRate(yr.deflator, infl)]

\* Year.next_year of simple_isa_model.py (its __init__ is NewYear as well)
SimpleNextYear(yr, shock, ushock) ==
  LET infl == Clamp(-20, 150,
                    (yr.stable_inflation_rate * 450 + yr.inflation_rate * 500)
                      \div RateScale + shock)
      unemp == Clamp(20, 300,
                     (yr.stable_unemployment_rate * 330 + yr.unemployment_rate * 250)
                       \div RateScale + ushock)
  IN [yr EXCEPT !.year_count = yr.year_count + 1,
                !.inflation_rate = infl,
                !.unemployment_rate = unemp,
                !.isa_cap = TimesRate(yr.isa_cap, infl),
                !.isa_threshold = TimesRate(yr.isa_threshold, infl),
                !.deflator = TimesRate(yr.deflator, infl)]

(* ---------------------------------------------------------------------- *)
(* Degree parameters                                                       *)
(* ---------------------------------------------------------------------- *)

DegreeParams(name, sal, std, growth, years, home) ==
  [name |-> name, initial_salary |-> sal, salary_std |-> std,
   annual_growth |-> growth, years_to_complete |-> years, home_prob |-> home,
   max_salary_multiplier |-> 1500]

\* simulate_impact, "Convert DegreeParams to Degree objects"; w is the weight
\* (in 1/RateScale) the pair carries.
ToDegree(dp, w) ==
  [name |-> dp.name, mean_earnings |-> dp.initial_salary, stdev |-> dp.salary_std,
   experience_growth |-> dp.annual_growth, years_to_complete |-> dp.years_to_complete,
   home_prob |-> dp.home_prob, weight |-> w]

\* get_degree_for_scenario: the default degree mix of each program variant
\* (weights rounded to 1/RateScale).
GetDegreeForScenario(program_type, home_prob) ==
  IF program_type = "University" THEN
    << <<DegreeParams("BA", 41300, 6000, 30, 4, home_prob), 700>>,
       <<DegreeParams("MA", 46709, 6600, 40, 6, home_prob), 200>>,
       <<DegreeParams("ASST_SHIFT", 31500, 2800, 5, 6, home_prob), 100>> >>
  ELSE IF program_type = "Nurse" THEN
    << <<DegreeParams("NURSE", 40000, 4000, 20, 4, home_prob), 250>>,
       <<DegreeParams("ASST", 31500, 2800, 5, 3, home_prob), 402>>,
       <<DegreeParams("ASST_SHIFT", 31500, 2800, 5, 6, home_prob), 198>>,
       <<DegreeParams("NA", 1100, 640, 10, 2, 1000), 150>> >>
  ELSE IF program_type = "Trade" THEN
    << <<DegreeParams("TRADE", 35000, 3000, 20, 3, home_prob), 400>>,
       <<DegreeParams("ASST", 31500, 2800, 5, 3, home_prob), 268>>,
       <<DegreeParams("ASST_SHIFT", 31500, 2800, 5, 6, home_prob), 132>>,
       <<DegreeParams("NA", 1100, 100, 10, 2, 1000), 200>> >>
  ELSE <<>>

(* ---------------------------------------------------------------------- *)
(* Student                                                                 *)
(* ---------------------------------------------------------------------- *)

\* Student.__init__ ; n is the length of the per-period arrays, delay the
\* drawn actual_years_to_complete, wrh the drawn will_return_home.  id and
\* start_year are the attributes simulate_impact assigns after construction.
NewStudent(degree, n, cf, stipend_income, stipend_std, gly, study_income, delay, wrh, id, start_year) ==
  [degree |-> degree, num_years |-> n, counterfactual_params |-> cf,
   stipend_income |-> stipend_income, stipend_std |-> stipend_std,
   german_learning_years |-> gly, study_income |-> study_income,
   passed_german |-> "None", in_germany |-> (gly = 0),
   years_experience |-> 0, earnings_power |-> 0,
   is_graduated |-> FALSE, is_employed |-> FALSE, is_home |-> FALSE,
   actual_years_to_complete |-> delay,
   earnings |-> Zeros(n), counterfactual_earnings |-> Zeros(n),
   payments |-> Zeros(n), real_payments |-> Zeros(n),
   years_paid |-> 0, hit_cap |-> FALSE,
   employment_history |-> Falses(n), current_unemployment_spell |-> 0,
   will_return_home |-> wrh, id |-> id, start_year |-> start_year]

\* Student.has_graduated
HasGraduated(s, rel) == rel >= s.german_learning_years + s.actual_years_to_complete

PastLifeExpectancy(rel) == 10 * (StartingAge + rel) >= LifeExpectancyTenths

\* Student.calculate_counterfactual_earnings
CalculateCounterfactualEarnings(s, rel, yr) ==
  IF PastLifeExpectancy(rel) THEN 0
  ELSE LET p == s.counterfactual_params
           control_income == p.base_earnings * p.control_earner_multiplier
           other_earners_income == p.base_earnings * (p.num_earners - 1)
           per_person == (control_income + other_earners_income)
                           \div p.household_size_counterfactual
       IN TimesDeflator(per_person, yr.deflator)

\* calculate_earnings, "Check German acquisition at end of learning phase"
GermanCheck(s) ==
  IF s.german_learning_years > 0 /\ s.passed_german = "None"
  THEN IF s.degree.name = "NA"
       THEN [s EXCEPT !.passed_german = "False", !.in_germany = FALSE,
                      !.will_return_home = TRUE, !.is_home = TRUE]
       ELSE [s EXCEPT !.passed_german = "True", !.in_germany = TRUE]
  ELSE s

\* calculate_earnings, "Check employment status": the draw and the
\* unemployment-spell bookkeeping.  emp is the Bernoulli draw.
UpdateEmployment_NoReset(s, rel, yr, emp) ==
  LET s1 ==
        IF yr.unemployment_rate < RateScale
        THEN LET prev == s.is_employed
                 spell == IF prev /\ ~emp THEN 1
                          ELSE IF ~prev /\ ~emp THEN s.current_unemployment_spell + 1
                          ELSE s.current_unemployment_spell
             IN [s EXCEPT !.is_employed = emp, !.current_unemployment_spell = spell]
        ELSE [s EXCEPT !.is_employed = FALSE,
                       !.current_unemployment_spell = s.current_unemployment_spell + 1]
  IN [s1 EXCEPT !.employment_history[rel + 1] = s1.is_employed]
UpdateEmployment(s, rel, yr, emp) ==
  LET s1 ==
        IF yr.unemployment_rate < RateScale
        THEN LET prev == s.is_employed
                 spell == IF prev /\ ~emp THEN 1
                          ELSE IF ~prev /\ ~emp THEN s.current_unemployment_spell + 1
                          ELSE IF ~prev /\ emp THEN 0
                          ELSE s.current_unemployment_spell
             IN [s EXCEPT !.is_employed = emp, !.current_unemployment_spell = spell]
        ELSE [s EXCEPT !.is_employed = FALSE,
                       !.current_unemployment_spell = s.current_unemployment_spell + 1]
  IN [s1 EXCEPT !.employment_history[rel + 1] = s1.is_employed]

\* calculate_earnings, the employed branch: (re)draw of the earnings power,
\* growth, ceiling.  zs is the z-score of the salary draw.
EmployedEarnings_Shrinking(s, rel, yr, zs) ==
  LET redraw == rel = s.actual_years_to_complete \/ s.earnings_power = 0
      initial_salary == TimesDeflator(s.degree.mean_earnings, yr.deflator)
      salary_std == TimesDeflator(s.degree.stdev, yr.deflator)
      ep0 == IF redraw
             THEN Max(MinEarningsPower, NormalDraw(initial_salary, salary_std, zs))
             ELSE s.earnings_power
      growth_factor == RateScale - s.degree.experience_growth - yr.inflation_rate
      ep1 == (ep0 * growth_factor) \div RateScale
      max_earnings == TimesDeflator((s.degree.mean_earnings * MaxMultipleNum) \div MaxMultipleDen,
                                    yr.deflator)
      ep2 == Min(ep1, max_earnings)
  IN [s EXCEPT !.earnings_power = ep2,
               !.years_experience = (IF redraw THEN 0 ELSE s.years_experience) + 1]
EmployedEarnings(s, rel, yr, zs) ==
  LET redraw == rel = s.actual_years_to_complete \/ s.earnings_power = 0
      initial_salary == TimesDeflator(s.degree.mean_earnings, yr.deflator)
      salary_std == TimesDeflator(s.degree.stdev, yr.deflator)
      ep0 == IF redraw
             THEN Max(MinEarningsPower, NormalDraw(initial_salary, salary_std, zs))
             ELSE s.earnings_power
      growth_factor == RateScale + s.degree.experience_growth + yr.inflation_rate
      ep1 == (ep0 * growth_factor) \div RateScale
      max_earnings == TimesDeflator((s.degree.mean_earnings * MaxMultipleNum) \div MaxMultipleDen,
                                    yr.deflator)
      ep2 == Min(ep1, max_earnings)
  IN [s EXCEPT !.earnings_power = ep2,
               !.years_experience = (IF redraw THEN 0 ELSE s.years_experience) + 1]

\* Student.calculate_earnings: the updated student and the returned earnings.
\* emp, zs, zt are the draws (employment, salary z-score, stipend z-score).
CalculateEarnings(s, rel, yr, emp, zs, zt) ==
  IF PastLifeExpectancy(rel) THEN [st |-> s, e |-> 0]
  ELSE IF rel < s.german_learning_years
  THEN [st |-> s, e |-> CalculateCounterfactualEarnings(s, rel, yr)]
  ELSE
    LET s1 == GermanCheck(s)
    IN IF s1.german_learning_years > 0 /\ ~s1.in_germany
       THEN [st |-> s1, e |-> CalculateCounterfactualEarnings(s1, rel, yr)]
       ELSE
         LET s2 == [s1 EXCEPT !.is_graduated = HasGraduated(s1, rel)]
         IN IF ~s2.is_graduated
            THEN IF s2.german_learning_years > 0 /\ s2.study_income > 0
                 THEN [st |-> s2, e |-> TimesDeflator(s2.study_income, yr.deflator)]
                 ELSE IF s2.stipend_income > 0
                 THEN [st |-> s2,
                       e |-> Max(0, TimesDeflator(
                                 NormalDraw(s2.stipend_income, s2.stipend_std, zt),
                                 yr.deflator))]
                 ELSE [st |-> s2, e |-> 0]
            ELSE IF s2.will_return_home
                    /\ rel >= s2.german_learning_years + s2.actual_years_to_complete
            THEN LET s3 == [s2 EXCEPT !.is_home = TRUE]
                     base == CalculateCounterfactualEarnings(s3, rel, yr)
                     te == s3.counterfactual_params.returner_treatment_effect
                 IN IF te > 0
                    THEN [st |-> s3,
                          e |-> base + TimesDeflator(
                                  te \div s3.counterfactual_params.household_size_counterfactual,
                                  yr.deflator)]
                    ELSE [st |-> s3, e |-> base]
            ELSE LET s4 == UpdateEmployment(s2, rel, yr, emp)
                 IN IF ~s4.is_employed
                    THEN [st |-> s4, e |-> 0]
                    ELSE LET s5 == EmployedEarnings(s4, rel, yr, zs)
                         IN [st |-> s5, e |-> s5.earnings_power]

(* ---------------------------------------------------------------------- *)
(* Contract                                                                *)
(* ---------------------------------------------------------------------- *)

\* Contract(student_id, purchase_price, remaining_payments) and __post_init__
NewContract(student_id, purchase_price, remaining_payments) ==
  [student_id |-> student_id, purchase_price |-> purchase_price,
   remaining_payments |-> remaining_payments, total_payments |-> 0,
   current_value |-> purchase_price * CvScale,
   is_active |-> TRUE, exit_reason |-> "None"]

\* Contract.record_payment
RecordPayment(c, amount) ==
  LET rem == Max(0, c.remaining_payments - 1)
  IN [c EXCEPT !.total_payments = c.total_payments + amount,
               !.remaining_payments = rem,
               !.current_value = IF rem > 0 /\ c.is_active
                                 THEN c.purchase_price * rem
                                 ELSE 0]

\* Contract.mark_exit
MarkExit(c, reason) ==
  [c EXCEPT !.is_active = FALSE, !.exit_reason = reason, !.current_value = 0]

(* ---------------------------------------------------------------------- *)
(* InvestmentPool                                                          *)
(* ---------------------------------------------------------------------- *)

NoExits == [payment_cap |-> 0, years_cap |-> 0, home_return |-> 0, default |-> 0]

\* InvestmentPool.__init__ ; the roster (pool.students) is the variable
\* students, which simulate_impact keeps identical to its local list.
NewPool(initial_amount, isa_cap) ==
  [initial_amount |-> initial_amount, available_funds |-> initial_amount,
   yearly_returns |-> 0, yearly_cash |-> <<initial_amount>>,
   contracts |-> <<>>, isa_cap |-> isa_cap,
   total_contracts |-> 0, exits |-> NoExits]

\* InvestmentPool.invest: the pool afterwards and the returned flag.
\* As in the code, the contract is built as Contract(len(contracts),
\* start_year, num_years).
Invest_NoTotal(p, amount, start_year, num_years) ==
  IF p.available_funds >= amount
  THEN [ok |-> TRUE,
        pool |-> [p EXCEPT !.available_funds = p.available_funds - amount,
                           !.contracts = Append(p.contracts,
                                                NewContract(Len(p.contracts), start_year, num_years))]]
  ELSE [ok |-> FALSE, pool |-> p]
Invest_NoCheck(p, amount, start_year, num_years) ==
  [ok |-> TRUE,
   pool |-> [p EXCEPT !.available_funds = p.available_funds - amount,
                      !.contracts = Append(p.contracts,
                                           NewContract(Len(p.contracts), start_year, num_years)),
                      !.total_contracts = p.total_contracts + 1]]
Invest(p, amount, start_year, num_years) ==
  IF p.available_funds >= amount
  THEN [ok |-> TRUE,
        pool |-> [p EXCEPT !.available_funds = p.available_funds - amount,
                           !.contracts = Append(p.contracts,
                                                NewContract(Len(p.contracts), start_year, num_years)),
                           !.total_contracts = p.total_contracts + 1]]
  ELSE [ok |-> FALSE, pool |-> p]

\* InvestmentPool.receive_payment
ReceivePayment(p, amount, student_id) ==
  [p EXCEPT !.available_funds = p.available_funds + amount,
            !.yearly_returns = p.yearly_returns + amount]

\* Index of the first contract of the student that is still active, 0 if none
\* (`for contract in self.contracts: if ... and contract.is_active: ... break`)
FirstActive(contracts, student_id) ==
  LET hits == {k \in 1..Len(contracts) :
                 contracts[k].student_id = student_id /\ contracts[k].is_active}
  IN IF hits = {} THEN 0 ELSE CHOOSE k \in hits : \A m \in hits : k <= m

\* InvestmentPool.mark_contract_exit
MarkContractExit_NoCount(p, student_id, reason) ==
  LET k == FirstActive(p.contracts, student_id)
  IN IF k = 0 THEN p
     ELSE [p EXCEPT !.contracts[k] = MarkExit(p.contracts[k], reason)]
MarkContractExit_NoGuard(p, student_id, reason) ==
  LET hits == {k \in 1..Len(p.contracts) : p.contracts[k].student_id = student_id}
  IN IF hits = {} THEN p
     ELSE LET k == CHOOSE x \in hits : \A m \in hits : x <= m
          IN [p EXCEPT !.contracts[k] = MarkExit(p.contracts[k], reason),
                       !.exits[reason] = p.exits[reason] + 1]
MarkContractExit(p, student_id, reason) ==
  LET k == FirstActive(p.contracts, student_id)
  IN IF k = 0 THEN p
     ELSE [p EXCEPT !.contracts[k] = MarkExit(p.contracts[k], reason),
                    !.exits[reason] = p.exits[reason] + 1]

\* InvestmentPool.end_year: the pool afterwards; the returned cash flow is
\* the pool's yearly_returns before the call.
EndYearPool(p) ==
  [p EXCEPT !.yearly_cash = Append(p.yearly_cash, p.available_funds),
            !.yearly_returns = 0]

\* The student the sweep looks up for a contract: index of the first student
\* on the roster with that id, 0 if none.
FindStudent(roster, student_id) ==
  LET hits == {n \in 1..Len(roster) : roster[n].id = student_id}
  IN IF hits = {} THEN 0 ELSE CHOOSE n \in hits : \A m \in hits : n <= m

\* mark_remaining_as_defaulted: the reason chosen for one active contract
SweepReason_AllDefault(p, roster, c) == "default"
SweepReason(p, roster, c) ==
  LET n == FindStudent(roster, c.student_id)
  IN IF n = 0 THEN "default"
     ELSE IF 2 * SumSeq(roster[n].payments) >= p.isa_cap THEN "years_cap"
     ELSE IF roster[n].is_home THEN "home_return"
     ELSE IF roster[n].is_graduated /\ roster[n].will_return_home THEN "home_return"
     ELSE "default"

\* InvestmentPool.mark_remaining_as_defaulted: the loop over the contracts
\* from position k on
RECURSIVE MarkRemainingFrom(_, _, _)
MarkRemainingFrom(p, roster, k) ==
  IF k > Len(p.contracts) THEN p
  ELSE LET c == p.contracts[k]
           p1 == IF c.is_active
                 THEN MarkContractExit(p, c.student_id, SweepReason(p, roster, c))
                 ELSE p
       IN MarkRemainingFrom(p1, roster, k + 1)

MarkRemainingAsDefaulted(p, roster) == MarkRemainingFrom(p, roster, 1)

(* ---------------------------------------------------------------------- *)
(* simulate_impact: the body of the period loop for one student            *)
(* ---------------------------------------------------------------------- *)

\* "Calculate payment": min(earnings * isa_percentage, isa_cap - sum(payments))
PaymentAmount_Max(earnings, isa_percentage, isa_cap, paid) ==
  Max((earnings * isa_percentage) \div RateScale, isa_cap - paid)
PaymentAmount(earnings, isa_percentage, isa_cap, paid) ==
  Min((earnings * isa_percentage) \div RateScale, isa_cap - paid)

\* "Find and update the student's contract"
RecordOnContract_AnyState(p, student_id, payment) ==
  LET hits == {k \in 1..Len(p.contracts) : p.contracts[k].student_id = student_id}
  IN IF hits = {} THEN p
     ELSE LET k == CHOOSE x \in hits : \A m \in hits : x <= m
          IN [p EXCEPT !.contracts[k] = RecordPayment(p.contracts[k], payment)]
RecordOnContract(p, student_id, payment) ==
  LET k == FirstActive(p.contracts, student_id)
  IN IF k = 0 THEN p
     ELSE [p EXCEPT !.contracts[k] = RecordPayment(p.contracts[k], payment)]

\* "Check if earnings exceed threshold" branch, once years_paid is below the
\* 10-year cap: payment, cap check, recording.
PayBranch_Uncapped(s, p, yr, rel, earnings, isa_percentage) ==
  LET payment == (earnings * isa_percentage) \div RateScale
      s1 == [s EXCEPT !.payments[rel + 1] = payment,
                      !.real_payments[rel + 1] = OverDeflator(payment, yr.deflator)]
      p2 == RecordOnContract(p, s1.id, payment)
      p3 == ReceivePayment(p2, OverDeflator(payment, yr.deflator), s1.id)
  IN [st |-> s1, pool |-> p3]
PayBranch(s, p, yr, rel, earnings, isa_percentage) ==
  LET paid == SumSeq(s.payments)
      payment0 == PaymentAmount(earnings, isa_percentage, yr.isa_cap, paid)
      capped == paid + payment0 >= yr.isa_cap
      payment == IF capped THEN yr.isa_cap - paid ELSE payment0
      p1 == IF capped THEN MarkContractExit(p, s.id, "payment_cap") ELSE p
      s1 == [s EXCEPT !.hit_cap = (capped \/ s.hit_cap),
                      !.payments[rel + 1] = payment,
                      !.real_payments[rel + 1] = OverDeflator(payment, yr.deflator)]
      p2 == RecordOnContract(p1, s1.id, payment)
      p3 == ReceivePayment(p2, OverDeflator(payment, yr.deflator), s1.id)
  IN [st |-> s1, pool |-> p3]

\* "Check if earnings exceed threshold"
AboveThreshold_AnyEarnings(earnings, yr) == earnings > 0
AboveThreshold(earnings, yr) == earnings > yr.isa_threshold

\* One iteration of `for student in students` in period i, for a student
\* with start_year <= i.
ProcessStudent(s, p, yr, i, isa_percentage, emp, zs, zt) ==
  LET rel == i - s.start_year
      r == CalculateEarnings(s, rel, yr, emp, zs, zt)
      s1 == [r.st EXCEPT !.earnings[rel + 1] = r.e]
      s2 == [s1 EXCEPT !.counterfactual_earnings[rel + 1] =
                          CalculateCounterfactualEarnings(s1, rel, yr)]
  IN IF s2.german_learning_years > 0 /\ s2.passed_german = "False"
        /\ rel = s2.german_learning_years
     THEN [st |-> s2, pool |-> MarkContractExit(p, s2.id, "home_return")]
     ELSE IF s2.is_graduated /\ s2.will_return_home
             /\ rel >= s2.german_learning_years + s2.actual_years_to_complete
     THEN [st |-> s2, pool |-> MarkContractExit(p, s2.id, "home_return")]
     ELSE IF s2.is_graduated /\ ~s2.hit_cap
     THEN IF s2.current_unemployment_spell > DefaultSpell
          THEN [st |-> s2, pool |-> MarkContractExit(p, s2.id, "default")]
          ELSE IF AboveThreshold(r.e, yr)
          THEN LET s3 == [s2 EXCEPT !.years_paid = s2.years_paid + 1]
               IN IF s3.years_paid >= YearsPaidCap
                  THEN [st |-> s3, pool |-> MarkContractExit(p, s3.id, "years_cap")]
                  ELSE PayBranch(s3, p, yr, rel, r.e, isa_percentage)
          ELSE [st |-> s2, pool |-> p]
     ELSE [st |-> s2, pool |-> p]

(* ---------------------------------------------------------------------- *)
(* Results of a run                                                        *)
(* ---------------------------------------------------------------------- *)

\* Utilities are in 1/RateScale.  np.log is modelled by the binary logarithm
\* rounded down, times ln 2 = 0.693.
RECURSIVE Log2(_)
Log2(x) == IF x < 2 THEN 0 ELSE 1 + Log2(x \div 2)
Ln(x) == 693 * Log2(x)

\* the value standing for -inf and the one standing for a division by zero
NegInf == -888888
ZeroDivision == -777777

\* a / b of Python, for b >= 0
PyDiv(a, b) == IF b = 0 THEN ZeroDivision ELSE a \div b

\* np.mean of a list
Mean_OffByOne(q) == PyDiv(SumSeq(q), Len(q) + 1)
Mean(q) == PyDiv(SumSeq(q), Len(q))

\* impact_params.eur_to_usd = 0.8458, the remittance_rate 0.08 and the
\* moral weight 1.44 of calculate_statistics
EurToUsd(x) == (x * 8458) \div 10000
Remitted(x) == (x * 80) \div RateScale
Weighted(u) == (u * 144) \div 100

\* calculate_utility
CalculateUtility(income) == Ln(Max(1, income))

\* calculate_remittance_utility with the household of the student
CalculateRemittanceUtility(remittance_amount, params) ==
  IF remittance_amount <= 0 THEN 0
  ELSE LET base_consumption == (params.base_earnings * params.num_earners)
                                 \div params.household_size_remittance
           remittance_per_person == remittance_amount \div params.household_size_remittance
           gain == Ln(base_consumption + remittance_per_person) - Ln(base_consumption)
       IN (Weighted(gain) * params.household_size_remittance * 12) \div 10

\* Student.calculate_statistics
CalculateStatistics(s, yr) ==
  LET T == 1..Len(s.earnings)
      earnings_usd == [t \in T |-> OverDeflator(EurToUsd(s.earnings[t]), yr.deflator)]
      counterfactual == [t \in T |-> OverDeflator(s.counterfactual_earnings[t], yr.deflator)]
      remittances_usd ==
        [t \in T |-> EurToUsd(OverDeflator(Remitted(s.earnings[t]), yr.deflator))]
      counterfactual_remittances ==
        [t \in T |-> OverDeflator(Remitted(s.counterfactual_earnings[t]), yr.deflator)]
      earnings_gain == SumSeq(earnings_usd) - SumSeq(counterfactual)
      remittance_gain == SumSeq(remittances_usd) - SumSeq(counterfactual_remittances)
      utility_gain ==
        SumSeq([t \in T |-> Weighted(CalculateUtility(earnings_usd[t] - remittances_usd[t]))])
        - SumSeq([t \in T |->
                   Weighted(CalculateUtility(counterfactual[t] - counterfactual_remittances[t]))])
      remittance_utility_gain ==
        SumSeq([t \in T |->
                 CalculateRemittanceUtility(remittances_usd[t], s.counterfactual_params)])
        - SumSeq([t \in T |->
                   CalculateRemittanceUtility(counterfactual_remittances[t],
                                              s.counterfactual_params)])
  IN [earnings_gain |-> earnings_gain,
      ppp_adjusted_earnings_gain |-> (earnings_gain * 4) \div 10,
      remittance_gain |-> remittance_gain,
      student_utility_gain |-> utility_gain,
      remittance_utility_gain |-> remittance_utility_gain,
      health_utility |-> 4290,
      migration_utility |-> IF s.is_graduated /\ ~s.is_home
                            THEN ((utility_gain + remittance_utility_gain) * 5) \div 100
                            ELSE 0]

\* the statistics of the graduated students of the roster
RECURSIVE GraduateStatistics(_, _)
GraduateStatistics(roster, yr) ==
  IF roster = <<>> THEN <<>>
  ELSE (IF roster[1].is_graduated THEN <<CalculateStatistics(roster[1], yr)>> ELSE <<>>)
       \o GraduateStatistics(Tail(roster), yr)

DefaultStudentMetrics ==
  [avg_student_utility_gain |-> 0, avg_remittance_utility_gain |-> 0,
   avg_health_utility_gain |-> 0, avg_migration_utility_gain |-> 0,
   avg_total_utility_gain |-> 0, avg_total_utility_gain_with_extras |-> 0,
   avg_earnings_gain |-> 0, avg_ppp_adjusted_earnings_gain |-> 0,
   avg_remittance_gain |-> 0]

\* the averages over num_graduated students
AveragedMetrics(stats) ==
  LET num_graduated == Len(stats)
      N == 1..num_graduated
      total_student_utility == SumSeq([k \in N |-> stats[k].student_utility_gain])
      total_remittance_utility == SumSeq([k \in N |-> stats[k].remittance_utility_gain])
      total_health_utility == SumSeq([k \in N |-> stats[k].health_utility])
      total_migration_utility == SumSeq([k \in N |-> stats[k].migration_utility])
      total_earnings_gain == SumSeq([k \in N |-> stats[k].earnings_gain])
      total_ppp == SumSeq([k \in N |-> stats[k].ppp_adjusted_earnings_gain])
      total_remittance_gain == SumSeq([k \in N |-> stats[k].remittance_gain])
  IN [avg_student_utility_gain |-> PyDiv(total_student_utility, num_graduated),
      avg_remittance_utility_gain |-> PyDiv(total_remittance_utility, num_graduated),
      avg_health_utility_gain |-> PyDiv(total_health_utility, num_graduated),
      avg_migration_utility_gain |-> PyDiv(total_migration_utility, num_graduated),
      avg_total_utility_gain |->
        PyDiv(total_student_utility + total_remittance_utility, num_graduated),
      avg_total_utility_gain_with_extras |->
        PyDiv(total_student_utility + total_remittance_utility
                + total_health_utility + total_migration_utility, num_graduated),
      avg_earnings_gain |-> PyDiv(total_earnings_gain, num_graduated),
      avg_ppp_adjusted_earnings_gain |-> PyDiv(total_ppp, num_graduated),
      avg_remittance_gain |-> PyDiv(total_remittance_gain, num_graduated)]

\* simulate_impact, "Calculate student impact metrics" (the percentage
\* breakdown of the utility sources is left out)
StudentMetrics_NoGuard(roster, yr) == AveragedMetrics(GraduateStatistics(roster, yr))
StudentMetrics(roster, yr) ==
  LET stats == GraduateStatistics(roster, yr)
  IN IF roster # <<>> /\ Len(stats) > 0 THEN AveragedMetrics(stats)
     ELSE DefaultStudentMetrics

\* InvestmentPool.calculate_irr
CalculateIrr(p) ==
  IF Len(p.yearly_cash) < 2 THEN 0
  ELSE LET end_value == p.yearly_cash[Len(p.yearly_cash)]
           start_value == p.initial_amount
           years == Len(p.yearly_cash) - 1
       IN IF end_value <= 0 \/ start_value <= 0 THEN NegInf
          ELSE (Ln(end_value) - Ln(start_value)) \div years

\* The dictionary simulate_impact returns.  yearly_data holds, per period
\* with a callback, the values the callback was called with;
\* earnings_by_degree_yearly is left out.
SimulationResult(c, p, roster, yr, data) ==
  [initial_investment |-> c.initial_investment,
   final_cash |-> p.available_funds,
   irr |-> CalculateIrr(p),
   total_students |-> Len(roster),
   students_educated |-> Cardinality({n \in 1..Len(roster) : roster[n].is_graduated}),
   contract_metrics |-> [total_contracts |-> p.total_contracts, exits |-> p.exits],
   yearly_data |-> data,
   student_metrics |-> StudentMetrics(roster, yr),
   total_payments |-> SumSeq([k \in 1..Len(p.contracts) |-> p.contracts[k].total_payments])]

\* aggregate_simulation_results
AggregateSimulationResults(results) ==
  LET R == 1..Len(results)
      \* np.mean(..., axis=0) of one field of the yearly data
      Series(field) ==
        [t \in 1..Len(results[1].yearly_data) |->
           Mean([r \in R |-> results[r].yearly_data[t][field]])]
  IN [impact_metrics |->
        [avg_utility_gain |->
           Mean([r \in R |-> results[r].student_metrics.avg_total_utility_gain]),
         avg_earnings_gain |->
           Mean([r \in R |-> results[r].student_metrics.avg_earnings_gain]),
         avg_remittance_gain |->
           Mean([r \in R |-> results[r].student_metrics.avg_remittance_gain])],
      financial_metrics |->
        [avg_total_payments |-> Mean([r \in R |-> results[r].total_payments]),
         avg_students_funded |-> Mean([r \in R |-> results[r].total_students])],
      time_series |->
        IF results[1].yearly_data # <<>>
        THEN [cash |-> Series("cash"), returns |-> Series("returns"),
              active_contracts |-> Series("active_contracts")]
        ELSE <<>>,
      student_outcomes |->
        [graduation_rate |->
           Mean([r \in R |-> PyDiv(results[r].students_educated * RateScale,
                                   results[r].total_students)]),
         avg_irr |-> Mean([r \in R |-> results[r].irr])]]

\* run_impact_simulation: what it returns for the list of its runs' results
RunImpactSimulation(results) ==
  LET aggregated == AggregateSimulationResults(results)
  IN [impact_metrics |-> aggregated.impact_metrics,
      financial_metrics |-> aggregated.financial_metrics,
      time_series |-> aggregated.time_series,
      student_outcomes |-> aggregated.student_outcomes,
      irr |-> IF Len(results) = 1 THEN results[1].irr ELSE NoneVal,
      simulation_results |-> results]

(* ---------------------------------------------------------------------- *)
(* Inputs                                                                  *)
(* ---------------------------------------------------------------------- *)

\* CounterfactualParams with the dataclass defaults
Counterfactual(base_earnings, treatment) ==
  [base_earnings |-> base_earnings, control_earner_multiplier |-> 1,
   num_earners |-> 2, household_size_counterfactual |-> 5,
   household_size_remittance |-> 4,
   returner_treatment_effect |-> treatment]

Config(program_type, initial_investment, num_years, isa_cap, price, infl, unemp, degree_params, has_callback) ==
  [program_type |-> program_type, initial_investment |-> initial_investment,
   num_years |-> num_years, cf |-> Counterfactual(1503, 0), home_prob |-> 0,
   has_callback |-> has_callback, isa_percentage |-> 120, isa_cap |-> isa_cap,
   isa_threshold |-> NoneVal, price_per_student |-> price,
   initial_inflation_rate |-> infl, initial_unemployment_rate |-> unemp,
   degree_params |-> degree_params, stipend_income |-> 0, stipend_std |-> 0]

\* Degree profiles of the inputs
Steady(home) == DegreeParams("BA", 40000, 0, 0, 0, home)
Slow == DegreeParams("MA", 40000, 0, 0, 4, 1000)
Nurse0 == DegreeParams("NURSE", 40000, 0, 0, 0, 0)
NotCompleting == DegreeParams("NA", 1100, 0, 10, 2, 1000)
Fast == [DegreeParams("BA", 40000, 30000, 300, 0, 0) EXCEPT !.max_salary_multiplier = 1200]

Configs ==
  { \* the scenario of the spec: mean 40000, stdev 0, growth 0, inflation 2%
    Config("University", NumInitial * 30000, 2, 50000, 30000, 20, 80,
           << <<Steady(0), 1000>> >>, TRUE),
    \* a small cap and uncertain employment
    Config("University", NumInitial * 30000, 4, 9000, 30000, 20, 500,
           << <<Steady(0), 1000>> >>, FALSE),
    \* certain home return, with completion inside and outside the horizon
    Config("University", NumInitial * 30000, 2, 50000, 30000, 20, 0,
           << <<Steady(1000), 500>>, <<Slow, 500>> >>, FALSE),
    \* funds for one contract only
    Config("University", 30000, 2, 50000, 30000, 0, 0,
           << <<Steady(0), 1000>> >>, FALSE),
    \* a long horizon with full employment and one reinvestment
    Config("University", NumInitial * 30000 + 33000, 18, 1000000, 30000, 0, 0,
           << <<Steady(0), 1000>> >>, TRUE),
    \* a language-acquisition variant with a non-completion track
    Config("Nurse", NumInitial * 16650, 3, NoneVal, NoneVal, 20, 0,
           << <<Nurse0, 500>>, <<NotCompleting, 500>> >>, FALSE),
    \* a language-acquisition variant with funds for one contract and one
    \* reinvestment paid from the first repayments (4800 per payer)
    Config("Nurse", (NumInitial - 1) * 4800 - 200, 17, NoneVal,
           (NumInitial - 1) * 4800 - 200, 0, 0,
           << <<Nurse0, 500>>, <<NotCompleting, 500>> >>, FALSE),
    \* dispersed starting salaries, fast growth up to the earnings ceiling,
    \* a configured max_salary_multiplier of 1.2 and falling prices
    Config("University", NumInitial * 30000, 3, 50000, 30000, -10, 0,
           << <<Fast, 1000>> >>, FALSE),
    \* a non-completion track in a variant without a language phase
    Config("University", NumInitial * 30000, 3, 50000, 30000, 20, 0,
           << <<NotCompleting, 1000>> >>, FALSE),
    \* degree weights that do not sum to 1
    Config("University", NumInitial * 30000, 2, 50000, 30000, 20, 100,
           << <<Steady(0), 500>>, <<Slow, 400>> >>, FALSE),
    \* an unknown program type with a price and degrees
    Config("TVET", NumInitial * 30000, 2, 50000, 30000, 20, 0,
           << <<Steady(0), 1000>> >>, FALSE),
    \* a price of zero
    Config("University", NumInitial * 30000, 2, 50000, 0, 20, 0,
           << <<Steady(0), 1000>> >>, FALSE),
    \* an unknown program type without a price
    Config("TVET", 100000, 2, NoneVal, NoneVal, 20, 100,
           << <<Steady(0), 1000>> >>, FALSE) }

(* ---------------------------------------------------------------------- *)
(* simulate_impact as a state machine                                      *)
(* ---------------------------------------------------------------------- *)

VARIABLES
  cfg,          \* the arguments of the run
  loc,          \* resolved locals: ISA terms, price, stipend, degrees
  pc,           \* position in simulate_impact
  year,         \* the Year object
  pool,         \* the InvestmentPool
  students,     \* the roster (local list and pool.students)
  i,            \* period index of the loop
  j,            \* number of students already processed in period i
  todo,         \* iterations left of the reinvestment loop
  returns,      \* value returned by pool.end_year() in period i
  invest_ret,   \* value returned by the last pool.invest call, as a string
  yearly_data,  \* what the callback has been handed so far
  error,        \* the exception that ended the run, "None" if none
  result,       \* the dictionary simulate_impact returns
  advances      \* inflation rate in force after each Year.next_year call

vars == <<cfg, loc, pc, year, pool, students, i, j, todo, returns,
          invest_ret, yearly_data, error, result, advances>>

KnownPrograms == {"University", "Nurse", "Trade"}

\* "Set default ISA parameters based on program type if not provided"
DefaultIsaPercentage(program_type) ==
  IF program_type = "University" THEN 140 ELSE 120
DefaultIsaCap(program_type) ==
  IF program_type = "University" THEN 72500
  ELSE IF program_type = "Nurse" THEN 49950
  ELSE IF program_type = "Trade" THEN 45000
  ELSE 50000
DefaultPrice(program_type) ==
  IF program_type = "University" THEN 30012 ELSE 16650
DefaultStipend(program_type) ==
  IF program_type = "University" THEN 15840 ELSE 0
DefaultStipendStd(program_type) ==
  IF program_type = "University" THEN 1500 ELSE 0

OrDefault(v, d) == IF v = NoneVal THEN d ELSE v

Locals(c) ==
  [isa_percentage |-> OrDefault(c.isa_percentage, DefaultIsaPercentage(c.program_type)),
   isa_cap |-> OrDefault(c.isa_cap, DefaultIsaCap(c.program_type)),
   isa_threshold |-> OrDefault(c.isa_threshold, DefaultThreshold),
   price_per_student |-> OrDefault(c.price_per_student, DefaultPrice(c.program_type)),
   stipend_income |-> OrDefault(c.stipend_income, DefaultStipend(c.program_type)),
   stipend_std |-> OrDefault(c.stipend_std, DefaultStipendStd(c.program_type)),
   german_learning_years |-> IF c.program_type = "University" THEN 0 ELSE 1,
   study_income |-> IF c.program_type = "University" THEN 0 ELSE 14000,
   degrees |-> LET dps == IF c.degree_params = <<>>
                          THEN GetDegreeForScenario(c.program_type, c.home_prob)
                          ELSE c.degree_params
               IN [k \in 1..Len(dps) |-> ToDegree(dps[k][1], dps[k][2])]]

NoResult == <<>>
NoLocals == Locals(Config("University", 0, 0, 0, 0, 0, 0, <<>>, FALSE))
NoYear == NewYear(0, 0, 0, 0)
NoPool == NewPool(0, 0)

Init ==
  /\ cfg \in Configs
  /\ loc = NoLocals
  /\ pc = "start"
  /\ year = NoYear
  /\ pool = NoPool
  /\ students = <<>>
  /\ i = 0
  /\ j = 0
  /\ todo = 0
  /\ returns = 0
  /\ invest_ret = "None"
  /\ yearly_data = <<>>
  /\ error = "None"
  /\ result = NoResult
  /\ advances = <<>>

\* The price default raises for an unknown program type; so does
\* get_degree_for_scenario when no degree_params are given.
StartRaises(c) ==
  \/ c.price_per_student = NoneVal /\ c.program_type \notin KnownPrograms
  \/ c.degree_params = <<>> /\ c.program_type \notin KnownPrograms

\* Lines 890-971: defaults, Year, InvestmentPool, degrees
Start ==
  /\ pc = "start"
  /\ ~StartRaises(cfg)
  /\ loc' = Locals(cfg)
  /\ year' = NewYear(cfg.initial_inflation_rate, cfg.initial_unemployment_rate,
                     loc'.isa_cap, loc'.isa_threshold)
  /\ pool' = NewPool(cfg.initial_investment, loc'.isa_cap)
  /\ pc' = "cohort"
  /\ UNCHANGED <<cfg, students, i, j, todo, returns, invest_ret, yearly_data, error, result, advances>>

StartError ==
  /\ pc = "start"
  /\ StartRaises(cfg)
  /\ pc' = "error"
  /\ error' = "ValueError"
  /\ UNCHANGED <<cfg, loc, year, pool, students, i, j, todo, returns,
                 invest_ret, yearly_data, result, advances>>

RECURSIVE SumWeights(_)
SumWeights(ds) == IF ds = <<>> THEN 0 ELSE ds[1].weight + SumWeights(Tail(ds))

\* np.random.choice(degrees, p=weights) raises unless the weights sum to 1
WeightsOk == SumWeights(loc.degrees) = RateScale

\* The students `Student(degree_type, n, ...)` can construct: a degree of
\* positive weight, a graduation delay and a home-return draw.
FreshStudents(n, id, start_year) ==
  UNION { { NewStudent(loc.degrees[d], n, cfg.cf, loc.stipend_income, loc.stipend_std,
                       loc.german_learning_years, loc.study_income,
                       delay, wrh, id, start_year) :
              delay \in GraduationDelays(loc.degrees[d].years_to_complete,
                                         loc.degrees[d].name),
              wrh \in HomeDraws(loc.degrees[d].home_prob) } :
          d \in {k \in 1..Len(loc.degrees) : loc.degrees[k].weight > 0} }

\* Position after the initial cohort and after each period
LoopOrSweep(next_i) == IF next_i < cfg.num_years THEN "loop" ELSE "sweep"

\* Lines 973-984: one student of the initial cohort and its contract
Enroll ==
  /\ pc = "cohort"
  /\ WeightsOk
  /\ \E s \in FreshStudents(cfg.num_years, Len(students), 0) :
       LET r == Invest(pool, loc.price_per_student, 0, cfg.num_years)
       IN /\ students' = Append(students, s)
          /\ pool' = r.pool
          /\ invest_ret' = IF r.ok THEN "True" ELSE "False"
  /\ pc' = IF Len(students) + 1 = NumInitial THEN LoopOrSweep(0) ELSE "cohort"
  /\ UNCHANGED <<cfg, loc, year, i, j, todo, returns, yearly_data, error, result, advances>>

EnrollError ==
  /\ pc = "cohort"
  /\ ~WeightsOk
  /\ pc' = "error"
  /\ error' = "ValueError"
  /\ UNCHANGED <<cfg, loc, year, pool, students, i, j, todo, returns,
                 invest_ret, yearly_data, result, advances>>

\* Lines 995-1061: the next student of period i
StepStudent ==
  /\ pc = "loop"
  /\ j < Len(students)
  /\ LET s == students[j + 1]
     IN IF i < s.start_year
        THEN UNCHANGED <<students, pool>>
        ELSE \E emp \in EmpDraws(year.unemployment_rate),
                zs \in ZSet(s.degree.stdev), zt \in ZSet(s.stipend_std) :
               LET r == ProcessStudent(s, pool, year, i, loc.isa_percentage, emp, zs, zt)
               IN /\ students' = [students EXCEPT ![j + 1] = r.st]
                  /\ pool' = r.pool
  /\ j' = j + 1
  /\ UNCHANGED <<cfg, loc, pc, year, i, todo, returns, invest_ret, yearly_data, error, result, advances>>

\* price_per_student * year.deflator
CurrentPrice == TimesDeflator(loc.price_per_student, year.deflator)

\* "Reinvest available funds in new students if possible"
MayReinvest_AnyPeriod(period, num_years, funds, price) == funds > price
MayReinvest(period, num_years, funds, price) ==
  period < num_years - ReinvestCutoff /\ funds > price

\* max_new_students: what the funds above the cash reserve pay for
MaxNewStudents_NoReserve(funds, initial_investment, current_price) ==
  TruncDiv(Max(0, funds), current_price)
MaxNewStudents(funds, initial_investment, current_price) ==
  LET cash_reserve == (initial_investment * ReservePct) \div 100
      available_for_investment == Max(0, funds - cash_reserve)
  IN TruncDiv(available_for_investment, current_price)

\* Lines 1129-1141: end_year and the size of the reinvestment
EndYear ==
  /\ pc = "loop"
  /\ j = Len(students)
  /\ returns' = pool.yearly_returns
  /\ pool' = EndYearPool(pool)
  /\ IF MayReinvest(i, cfg.num_years, pool.available_funds, loc.price_per_student)
     THEN IF CurrentPrice = 0
             THEN /\ pc' = "error"
                  /\ error' = "ZeroDivisionError"
                  /\ todo' = 0
             ELSE /\ todo' = Max(0, MaxNewStudents(pool.available_funds,
                                                   cfg.initial_investment, CurrentPrice))
                  /\ pc' = IF todo' > 0 THEN "reinvest" ELSE "callback"
                  /\ error' = error
     ELSE /\ todo' = 0
          /\ pc' = "callback"
          /\ error' = error
  /\ UNCHANGED <<cfg, loc, year, students, i, j, invest_ret, yearly_data, result, advances>>

\* Lines 1143-1154: one iteration of the reinvestment loop
Reinvest ==
  /\ pc = "reinvest"
  /\ WeightsOk
  /\ \E s \in FreshStudents(cfg.num_years - i, Len(students), i) :
       LET r == Invest(pool, CurrentPrice, i, cfg.num_years)
       IN /\ students' = Append(students, s)
          /\ pool' = r.pool
          /\ invest_ret' = IF r.ok THEN "True" ELSE "False"
          /\ todo' = todo - 1
          /\ pc' = IF r.ok /\ todo - 1 > 0 THEN "reinvest" ELSE "callback"
  /\ UNCHANGED <<cfg, loc, year, i, j, returns, yearly_data, error, result, advances>>

ActiveContracts(p) == Cardinality({k \in 1..Len(p.contracts) : p.contracts[k].is_active})
TotalExits(p) ==
  p.exits.payment_cap + p.exits.years_cap + p.exits.home_return + p.exits.default

\* The arguments data_callback is called with in period i
CallbackArgs_OffByOne(p, period, period_returns) ==
  [year |-> period + 1, cash |-> p.available_funds,
   total_contracts |-> p.total_contracts,
   active_contracts |-> ActiveContracts(p),
   returns |-> period_returns, exits |-> TotalExits(p)]
CallbackArgs(p, period, period_returns) ==
  [year |-> period, cash |-> p.available_funds,
   total_contracts |-> p.total_contracts,
   active_contracts |-> ActiveContracts(p),
   returns |-> period_returns, exits |-> TotalExits(p)]

\* Lines 1156-1175: the callback of period i, and the loop header
Callback ==
  /\ pc = "callback"
  /\ yearly_data' =
       IF cfg.has_callback
       THEN Append(yearly_data, CallbackArgs(pool, i, returns))
       ELSE yearly_data
  /\ i' = i + 1
  /\ j' = 0
  /\ pc' = LoopOrSweep(i + 1)
  /\ UNCHANGED <<cfg, loc, year, pool, students, todo, returns, invest_ret, error, result, advances>>

\* Line 1178: the end-of-horizon sweep
Sweep ==
  /\ pc = "sweep"
  /\ pool' = MarkRemainingAsDefaulted(pool, students)
  /\ pc' = "swept"
  /\ UNCHANGED <<cfg, loc, year, students, i, j, todo, returns, invest_ret,
                 yearly_data, error, result, advances>>

\* Lines 1180-1260: the final metrics, the accounting assertion and the
\* returned dictionary
Finish ==
  /\ pc = "swept"
  /\ \E r \in {SimulationResult(cfg, pool, students, year, yearly_data)} :
        IF \E f \in DOMAIN r.student_metrics : r.student_metrics[f] = ZeroDivision
        THEN pc' = "error" /\ error' = "ZeroDivisionError" /\ result' = result
        ELSE IF TotalExits(pool) # pool.total_contracts
        THEN pc' = "error" /\ error' = "AssertionError" /\ result' = result
        ELSE pc' = "done" /\ error' = error /\ result' = r
  /\ UNCHANGED <<cfg, loc, year, pool, students, i, j, todo, returns,
                 invest_ret, yearly_data, advances>>

Next ==
  \/ Start
  \/ StartError
  \/ Enroll
  \/ EnrollError
  \/ StepStudent
  \/ EndYear
  \/ Reinvest
  \/ Callback
  \/ Sweep
  \/ Finish

Spec == Init /\ [][Next]_vars

(* ---------------------------------------------------------------------- *)
(* Year objects advanced on their own                                      *)
(* ---------------------------------------------------------------------- *)

\* simulate_impact never calls next_year; simple_isa_model.py calls it once
\* per simulated year.  Here a Year of either module is constructed and
\* advanced; cfg holds the constructor arguments and the module.
YearArgs ==
  [model : {"impact", "simple"},
   initial_inflation_rate : {-10, 20, 50},
   initial_unemployment_rate : {80},
   initial_isa_cap : {50000, 72500},
   initial_isa_threshold : {27000}]

YearInit ==
  /\ cfg \in YearArgs
  /\ year = NewYear(cfg.initial_inflation_rate, cfg.initial_unemployment_rate,
                    cfg.initial_isa_cap, cfg.initial_isa_threshold)
  /\ advances = <<>>
  /\ pc = "year"
  /\ loc = NoLocals
  /\ pool = NoPool
  /\ students = <<>>
  /\ i = 0
  /\ j = 0
  /\ todo = 0
  /\ returns = 0
  /\ invest_ret = "None"
  /\ yearly_data = <<>>
  /\ error = "None"
  /\ result = NoResult

YearNextYear ==
  /\ cfg.model = "impact"
  /\ Len(advances) < MaxAdvances
  /\ \E shock \in InflationShocks, ushock \in UnemploymentShocks :
       year' = NextYear(year, shock, ushock)
  /\ advances' = Append(advances, year'.inflation_rate)
  /\ UNCHANGED <<cfg, loc, pc, pool, students, i, j, todo, returns, invest_ret,
                 yearly_data, error, result>>

SimpleYearNextYear ==
  /\ cfg.model = "simple"
  /\ Len(advances) < MaxAdvances
  /\ \E shock \in InflationShocks, ushock \in SimpleUnemploymentShocks :
       year' = SimpleNextYear(year, shock, ushock)
  /\ advances' = Append(advances, year'.inflation_rate)
  /\ UNCHANGED <<cfg, loc, pc, pool, students, i, j, todo, returns, invest_ret,
                 yearly_data, error, result>>

YearNext ==
  \/ YearNextYear
  \/ SimpleYearNextYear

YearSpec == YearInit /\ [][YearNext]_vars

(* ---------------------------------------------------------------------- *)
(* simulate_simple (simple_isa_model.py) as a state machine                *)
(* ---------------------------------------------------------------------- *)

\* Degree and Student of simple_isa_model.py
SimpleDegree(name, mean_earnings, stdev, experience_growth, years_to_complete, leave_prob) ==
  [name |-> name, mean_earnings |-> mean_earnings, stdev |-> stdev,
   experience_growth |-> experience_growth, years_to_complete |-> years_to_complete,
   leave_labor_force_probability |-> leave_prob]

SimpleStudent(degree, n) ==
  [degree |-> degree, num_years |-> n, earnings_power |-> 0,
   earnings |-> Zeros(n), payments |-> Zeros(n), real_payments |-> Zeros(n),
   is_graduated |-> FALSE, is_employed |-> FALSE, is_home |-> FALSE,
   years_paid |-> 0, hit_cap |-> FALSE, years_experience |-> 0]

\* the arrays simulate_simple keeps besides the students
SimpleLocals(num_years, n) ==
  [total_payments |-> Zeros(num_years), total_real_payments |-> Zeros(num_years),
   malengo_payments |-> Zeros(num_years), malengo_real_payments |-> Zeros(num_years),
   investor_payments |-> Zeros(num_years), investor_real_payments |-> Zeros(num_years),
   student_graduated |-> Falses(n), student_hit_cap |-> Falses(n),
   student_is_na |-> Falses(n)]

\* _process_graduation with gamma = False; home is the draw of is_home, z and
\* zh the z-scores of the two salary draws
ProcessGraduation(s, home, z, zh) ==
  LET ep == Max(0, NormalDraw(s.degree.mean_earnings, s.degree.stdev, z))
  IN [s EXCEPT !.is_graduated = TRUE,
               !.is_home = home,
               !.earnings_power = IF home THEN Max(0, NormalDraw(2600, 690, zh)) ELSE ep]

\* _update_employment_status; emp is the draw
UpdateEmploymentStatus(s, yr, emp) ==
  [s EXCEPT !.is_employed = IF s.degree.name = "NA" THEN FALSE
                            ELSE IF yr.unemployment_rate < RateScale THEN emp
                            ELSE FALSE]

\* (1 + experience_growth) ** years_experience, in 1/RateScale
RECURSIVE GrowthPower(_, _)
GrowthPower(growth, n) ==
  IF n = 0 THEN RateScale
  ELSE (GrowthPower(growth, n - 1) * (RateScale + growth)) \div RateScale

\* "Calculate payment" of simulate_simple: the payment recorded for a
\* student who is below the year limit and has not hit the cap
SimplePayment(s, yr, potential_payment) ==
  IF SumSeq(s.payments) + potential_payment > yr.isa_cap
  THEN yr.isa_cap - SumSeq(s.payments)
  ELSE potential_payment

\* Lines 157-210: one iteration of `for student_idx, student in
\* enumerate(students)` in period t; idx is the 1-based position of s.
SimpleProcessStudent(s, idx, l, yr, t, c, home, z, zh, emp) ==
  IF t < s.degree.years_to_complete THEN [st |-> s, loc |-> l]
  ELSE
    LET grad == t = s.degree.years_to_complete
        s0 == IF grad THEN ProcessGraduation(s, home, z, zh) ELSE s
        l0 == IF grad
              THEN [l EXCEPT !.student_graduated[idx] = TRUE,
                             !.student_is_na[idx] = (s.degree.name = "NA")]
              ELSE l
        s1 == UpdateEmploymentStatus(s0, yr, emp)
    IN IF s1.is_employed
       THEN LET e == (TimesDeflator(s1.earnings_power, yr.deflator)
                        * GrowthPower(s1.degree.experience_growth, s1.years_experience))
                     \div RateScale
                s2 == [s1 EXCEPT !.earnings[t + 1] = e,
                                 !.years_experience = s1.years_experience + 1]
            IN IF e > yr.isa_threshold
               THEN LET s3 == [s2 EXCEPT !.years_paid = s2.years_paid + 1]
                    IN IF s3.years_paid > c.limit_years
                       THEN [st |-> s3, loc |-> [l0 EXCEPT !.student_hit_cap[idx] = TRUE]]
                       ELSE IF s3.hit_cap THEN [st |-> s3, loc |-> l0]
                       ELSE LET potential_payment == (c.isa_percentage * e) \div RateScale
                                capped == SumSeq(s3.payments) + potential_payment > yr.isa_cap
                                payment == SimplePayment(s3, yr, potential_payment)
                                real == OverDeflator(payment, yr.deflator)
                                s4 == [s3 EXCEPT !.payments[t + 1] = payment,
                                                 !.real_payments[t + 1] = real,
                                                 !.hit_cap = capped]
                                l1 == [l0 EXCEPT
                                         !.student_hit_cap[idx] = (capped \/ l0.student_hit_cap[idx]),
                                         !.total_payments[t + 1] = l0.total_payments[t + 1] + payment,
                                         !.total_real_payments[t + 1] =
                                            l0.total_real_payments[t + 1] + real]
                            IN [st |-> s4, loc |-> l1]
               ELSE [st |-> s2, loc |-> l0]
       ELSE [st |-> [s1 EXCEPT !.years_experience = Max(0, s1.years_experience - 3)],
             loc |-> IF l0.student_graduated[idx] /\ ~l0.student_is_na[idx]
                     THEN [l0 EXCEPT !.student_hit_cap[idx] = TRUE]
                     ELSE l0]

\* _calculate_malengo_fees: the fee of the period under the new structure
CalculateMalengoFees(roster, l, price_per_student, yr) ==
  LET payers == {n \in 1..Len(roster) :
                   /\ l.student_graduated[n] /\ ~l.student_hit_cap[n]
                   /\ ~l.student_is_na[n] /\ roster[n].is_employed}
      annual_fee == TimesDeflator((price_per_student * 2) \div 100, yr.deflator)
  IN [nominal |-> Cardinality(payers) * annual_fee,
      real |-> Cardinality(payers) * OverDeflator(annual_fee, yr.deflator)]

\* Lines 212-228: the fee split of period t
SplitPayments(roster, l, yr, t, c) ==
  LET fee == IF c.new_malengo_fee
             THEN CalculateMalengoFees(roster, l, c.price_per_student, yr)
             ELSE [nominal |-> (l.total_payments[t + 1] * c.performance_fee_pct) \div RateScale,
                   real |-> (l.total_real_payments[t + 1] * c.performance_fee_pct) \div RateScale]
  IN [l EXCEPT !.malengo_payments[t + 1] = fee.nominal,
               !.malengo_real_payments[t + 1] = fee.real,
               !.investor_payments[t + 1] = l.total_payments[t + 1] - fee.nominal,
               !.investor_real_payments[t + 1] = l.total_real_payments[t + 1] - fee.real]

\* Arguments of simulate_simple, with the Year arguments of its caller
SimpleArgs ==
  { \* a cap that the first payment reaches, the 10-year limit
    [degrees |-> << SimpleDegree("BA", 40000, 0, 30, 0, 0) >>,
     num_years |-> 3, isa_percentage |-> 140, limit_years |-> 10,
     performance_fee_pct |-> 150, price_per_student |-> 29000,
     new_malengo_fee |-> FALSE, initial_inflation_rate |-> 20,
     initial_unemployment_rate |-> 80, initial_isa_cap |-> 5000,
     initial_isa_threshold |-> 27000],
    \* the default University cap, a 1-year limit, the new fee structure, a
    \* degree with home returns and a non-completion degree
    [degrees |-> << SimpleDegree("MA", 46000, 0, 40, 1, 500),
                    SimpleDegree("NA", 1100, 0, 10, 1, 0) >>,
     num_years |-> 3, isa_percentage |-> 140, limit_years |-> 1,
     performance_fee_pct |-> 150, price_per_student |-> 29000,
     new_malengo_fee |-> TRUE, initial_inflation_rate |-> 20,
     initial_unemployment_rate |-> 80, initial_isa_cap |-> 72500,
     initial_isa_threshold |-> 27000] }

\* _create_students: every student draws one of the degrees
SimpleRosters(c) ==
  [1..NumSimple -> {SimpleStudent(c.degrees[d], c.num_years) : d \in 1..Len(c.degrees)}]

SimpleInit ==
  /\ cfg \in SimpleArgs
  /\ year = NewYear(cfg.initial_inflation_rate, cfg.initial_unemployment_rate,
                    cfg.initial_isa_cap, cfg.initial_isa_threshold)
  /\ students \in SimpleRosters(cfg)
  /\ loc = SimpleLocals(cfg.num_years, NumSimple)
  /\ pc = "simple"
  /\ i = 0
  /\ j = 0
  /\ advances = <<>>
  /\ pool = NoPool
  /\ todo = 0
  /\ returns = 0
  /\ invest_ret = "None"
  /\ yearly_data = <<>>
  /\ error = "None"
  /\ result = NoResult

\* one iteration of the student loop of period i
SimpleStepStudent ==
  /\ pc = "simple"
  /\ i < cfg.num_years
  /\ j < Len(students)
  /\ LET s == students[j + 1]
         grad == i = s.degree.years_to_complete
     IN \E home \in (IF grad THEN HomeDraws(s.degree.leave_labor_force_probability)
                      ELSE {FALSE}),
           z \in (IF grad THEN ZSet(s.degree.stdev) ELSE {0}),
           emp \in (IF i < s.degree.years_to_complete \/ s.degree.name = "NA"
                    THEN {FALSE} ELSE EmpDraws(year.unemployment_rate)) :
          \E zh \in (IF grad /\ home THEN ZSet(690) ELSE {0}) :
            LET r == SimpleProcessStudent(s, j + 1, loc, year, i, cfg, home, z, zh, emp)
            IN /\ students' = [students EXCEPT ![j + 1] = r.st]
               /\ loc' = r.loc
  /\ j' = j + 1
  /\ UNCHANGED <<cfg, pc, year, pool, i, todo, returns, invest_ret, yearly_data,
                 error, result, advances>>

\* Lines 212-231: the fee split of period i and year.next_year()
SimpleEndPeriod ==
  /\ pc = "simple"
  /\ i < cfg.num_years
  /\ j = Len(students)
  /\ loc' = SplitPayments(students, loc, year, i, cfg)
  /\ \E shock \in InflationShocks, ushock \in SimpleUnemploymentShocks :
       year' = SimpleNextYear(year, shock, ushock)
  /\ advances' = Append(advances, year'.inflation_rate)
  /\ i' = i + 1
  /\ j' = 0
  /\ UNCHANGED <<cfg, pc, pool, students, todo, returns, invest_ret, yearly_data,
                 error, result>>

\* Lines 233-248: the returned dictionary
SimpleReturn ==
  /\ pc = "simple"
  /\ i = cfg.num_years
  /\ result' = [Payments |-> [n \in 1..Len(students) |-> students[n].payments],
                Earnings |-> [n \in 1..Len(students) |-> students[n].earnings],
                Total_Payments |-> loc.total_payments,
                Malengo_Payments |-> loc.malengo_payments,
                Investor_Payments |-> loc.investor_payments]
  /\ pc' = "simple_done"
  /\ UNCHANGED <<cfg, loc, year, pool, students, i, j, todo, returns, invest_ret,
                 yearly_data, error, advances>>

SimpleNext ==
  \/ SimpleStepStudent
  \/ SimpleEndPeriod
  \/ SimpleReturn

SimpleSpec == SimpleInit /\ [][SimpleNext]_vars

(* ---------------------------------------------------------------------- *)
(* Properties                                                              *)
(* ---------------------------------------------------------------------- *)

Contracts == pool.contracts
ContractIdx == 1..Len(pool.contracts)
StudentIdx == 1..Len(students)

\* the student a contract belongs to (roster position, 0 if none)
Holder(c) == FindStudent(students, c.student_id)

\* roster positions whose student has been stepped in the current period
Stepped(n) == pc = "loop" /\ n <= j

\* C1: after the end-of-horizon sweep the four per-reason exit counters sum
\* to total_contracts, and every contract is inactive with one of the four
\* exit reasons.
C1_ExitsSumToTotal ==
  pc \in {"swept", "done", "error"} /\ error \notin {"ValueError", "ZeroDivisionError"}
  => /\ error = "None"
     /\ TotalExits(pool) = pool.total_contracts
     /\ pool.total_contracts = Len(Contracts)
     /\ \A k \in ContractIdx :
          ~Contracts[k].is_active /\ Contracts[k].exit_reason \in Reasons

\* C1 witness: a finished run with several contracts that left for at
\* least two different reasons.
C1_Witness ==
  /\ pc = "done"
  /\ pool.total_contracts >= 2
  /\ Cardinality({r \in Reasons : pool.exits[r] > 0}) >= 2
  /\ TotalExits(pool) = pool.total_contracts

\* C2: every student on the roster has exactly one contract carrying its id
\* and every contract carries the id of exactly one student.
C2_OneToOne ==
  /\ \A n \in StudentIdx :
       Cardinality({k \in ContractIdx : Contracts[k].student_id = students[n].id}) = 1
  /\ \A k \in ContractIdx :
       Cardinality({n \in StudentIdx : students[n].id = Contracts[k].student_id}) = 1

\* C3: the sum of a student's recorded ISA payments never exceeds the
\* current isa_cap.
C3_PaymentsWithinCap ==
  \A n \in StudentIdx : SumSeq(students[n].payments) <= year.isa_cap

\* C3 witness: a student whose payments were cut to reach the cap exactly,
\* the last one being smaller than the income share.
C3_Witness ==
  \E n \in StudentIdx :
    /\ students[n].hit_cap
    /\ SumSeq(students[n].payments) = year.isa_cap
    /\ \E t \in 1..Len(students[n].payments) :
         /\ students[n].payments[t] > 0
         /\ students[n].payments[t]
              < (students[n].earnings[t] * loc.isa_percentage) \div RateScale

\* C4: once a contract is inactive its current_value is 0 and its
\* total_payments, remaining_payments and exit_reason never change again.
C4_InactiveIsFrozen ==
  [][ /\ \A k \in 1..Len(pool'.contracts) :
           ~pool'.contracts[k].is_active => pool'.contracts[k].current_value = 0
      /\ \A k \in ContractIdx :
           ~Contracts[k].is_active
           => /\ k <= Len(pool'.contracts)
              /\ pool'.contracts[k] = Contracts[k] ]_vars

\* C4 witness: a contract that left by default whose student was employed
\* again and paid afterwards; the payment is not on the contract.
C4_Witness ==
  \E k \in ContractIdx :
    /\ Contracts[k].exit_reason = "default"
    /\ Holder(Contracts[k]) # 0
    /\ Contracts[k].total_payments < SumSeq(students[Holder(Contracts[k])].payments)

\* C5: mark_contract_exit for a student whose contract is already inactive,
\* with any reason, changes no counter and no contract.
C5_MarkExitIdempotent ==
  \A k \in ContractIdx : \A r \in Reasons :
    ~Contracts[k].is_active
    => MarkContractExit(pool, Contracts[k].student_id, r) = pool

\* C5 witness: a returner stepped in a period after the one of its
\* graduation, so the loop has called mark_contract_exit on its inactive
\* contract again, and the counter still counts it once.
C5_Witness ==
  \E n \in StudentIdx : \E k \in ContractIdx :
    /\ Stepped(n)
    /\ Contracts[k].student_id = students[n].id
    /\ Contracts[k].exit_reason = "home_return"
    /\ students[n].is_graduated /\ students[n].will_return_home
    /\ i - students[n].start_year
         > students[n].german_learning_years + students[n].actual_years_to_complete
    /\ pool.exits.home_return
         = Cardinality({m \in ContractIdx : Contracts[m].exit_reason = "home_return"})

\* the amount of the invest call made by a step that enrols a student
InvestAmount == IF pc = "cohort" THEN loc.price_per_student ELSE CurrentPrice

\* C6: invest returns true iff available_funds >= amount; on success it
\* deducts the amount, appends one contract and adds one to total_contracts;
\* on failure it leaves funds, contracts and counters unchanged.
C6_InvestAllOrNothing ==
  [][ Len(students') = Len(students) + 1
      => IF pool.available_funds >= InvestAmount
         THEN /\ invest_ret' = "True"
              /\ pool'.available_funds = pool.available_funds - InvestAmount
              /\ Len(pool'.contracts) = Len(Contracts) + 1
              /\ SubSeq(pool'.contracts, 1, Len(Contracts)) = Contracts
              /\ pool'.total_contracts = pool.total_contracts + 1
              /\ pool'.exits = pool.exits
         ELSE /\ invest_ret' = "False"
              /\ pool' = pool ]_vars

\* C6 witness: an invest call has been refused after another one succeeded.
C6_Witness ==
  /\ invest_ret = "False"
  /\ pool.total_contracts >= 1
  /\ Len(students) > Len(Contracts)
  /\ pool.available_funds < loc.price_per_student

\* C7: between periods, and after the last one, the economic state has been
\* advanced once per completed period.
C7_AdvancedEveryPeriod ==
  (pc = "loop" /\ j = 0) \/ pc \in {"sweep", "swept", "done"}
  => year.year_count = 1 + i

PriorityReason(c) ==
  LET n == Holder(c)
  IN IF n # 0 /\ 2 * SumSeq(students[n].payments) >= pool.isa_cap THEN "years_cap"
     ELSE IF n # 0 /\ students[n].is_home THEN "home_return"
     ELSE "default"

\* C9: the sweep gives every still-active contract the reason of the
\* priority (payments >= 50% of the cap: years_cap; else is_home:
\* home_return; else default), never payment_cap, and leaves none active;
\* contracts already inactive keep their reason.
C9_SweepPriority ==
  [][ pc = "sweep"
      => /\ Len(pool'.contracts) = Len(Contracts)
         /\ \A k \in ContractIdx :
              /\ ~pool'.contracts[k].is_active
              /\ pool'.contracts[k].exit_reason =
                   IF Contracts[k].is_active THEN PriorityReason(Contracts[k])
                   ELSE Contracts[k].exit_reason ]_vars

\* a contract the loop cannot have given this reason
SweptAs(k, reason) ==
  LET n == Holder(Contracts[k])
  IN /\ Contracts[k].exit_reason = reason
     /\ n # 0
     /\ reason = "years_cap" => students[n].years_paid < YearsPaidCap
     /\ reason = "default" => students[n].current_unemployment_spell <= DefaultSpell
     /\ reason = "home_return"
          => students[n].passed_german = "False" /\ Contracts[k].purchase_price > 0

\* C9 witness: a swept run in which the sweep assigned years_cap to one
\* contract and default to another.
C9_Witness ==
  /\ pc = "swept"
  /\ \E k1, k2 \in ContractIdx : SweptAs(k1, "years_cap") /\ SweptAs(k2, "default")

\* The is_home branch of the sweep is reached as well: a contract of a
\* student who failed the language phase, created by a later reinvestment.
C9_HomeReturnSwept ==
  pc = "swept" /\ \E k \in ContractIdx : SweptAs(k, "home_return")

\* position of the first employed period of a student, 0 if none
FirstEmployed(s) ==
  LET emp == {t \in 1..Len(s.employment_history) : s.employment_history[t]}
  IN IF emp = {} THEN 0 ELSE CHOOSE t \in emp : \A u \in emp : t <= u

\* C10: in the period a graduated student is first employed its recorded
\* earnings are the freshly drawn earnings power, mean_initial_earnings x
\* deflator when stdev = 0; growth is applied only in later periods.
C10_FirstEarningsAreDraw ==
  \A n \in StudentIdx :
    LET s == students[n]
        t == FirstEmployed(s)
    IN s.degree.stdev = 0 /\ t # 0
       => s.earnings[t]
            = Max(MinEarningsPower, TimesDeflator(s.degree.mean_earnings, year.deflator))

\* x after the advances with these inflation rates
RECURSIVE Compounded(_, _)
Compounded(x, rates) ==
  IF rates = <<>> THEN x ELSE Compounded(TimesRate(x, rates[1]), Tail(rates))

Abs(x) == IF x >= 0 THEN x ELSE -x

\* what the rounding of k products can separate x0 * deflator from x
RoundingSlack(k, x0) == 2 * k * Max(x0, RateScale)

\* C11: after any number of next_year calls, in either module, deflator is
\* the product of (1 + inflation_rate) over the advances made, isa_cap and
\* isa_threshold are their initial values multiplied by the same factors,
\* and so equal initial value x deflator up to rounding.
C11_DeflatorIsProduct ==
  /\ year.year_count = 1 + Len(advances)
  /\ year.deflator = Compounded(RateScale, advances)
  /\ year.isa_cap = Compounded(cfg.initial_isa_cap, advances)
  /\ year.isa_threshold = Compounded(cfg.initial_isa_threshold, advances)
  /\ Abs(year.isa_cap * RateScale - cfg.initial_isa_cap * year.deflator)
       <= RoundingSlack(Len(advances), cfg.initial_isa_cap)
  /\ Abs(year.isa_threshold * RateScale - cfg.initial_isa_threshold * year.deflator)
       <= RoundingSlack(Len(advances), cfg.initial_isa_threshold)

\* C11 witness: a Year advanced at least twice under different inflation
\* rates, one of them negative, with a deflator away from 1.
C11_Witness ==
  /\ pc = "year"
  /\ Len(advances) >= 2
  /\ advances[1] # advances[2]
  /\ \E k \in 1..Len(advances) : advances[k] < 0
  /\ year.deflator # RateScale
  /\ year.isa_cap # cfg.initial_isa_cap

\* earnings[t] x isa_percentage of a student
IncomeShare(s, t) == (s.earnings[t] * loc.isa_percentage) \div RateScale

\* C12: in simulate_impact, for every student and every period t, the
\* recorded payment payments[t] is at most earnings[t] x isa_percentage.
C12_PaymentWithinShare ==
  \A n \in StudentIdx : \A t \in 1..Len(students[n].payments) :
    students[n].payments[t] <= IncomeShare(students[n], t)

\* C12 witness: a student with a payment equal to the full income share in
\* one period and a payment cut by the cap in a later one.
C12_Witness ==
  \E n \in StudentIdx : \E t, u \in 1..Len(students[n].payments) :
    /\ t < u
    /\ students[n].payments[t] > 0
    /\ students[n].payments[t] = IncomeShare(students[n], t)
    /\ students[n].payments[u] > 0
    /\ students[n].payments[u] < IncomeShare(students[n], u)

\* the earnings ceiling of a student's degree
MaxEarnings(s) ==
  TimesDeflator((s.degree.mean_earnings * MaxMultipleNum) \div MaxMultipleDen, year.deflator)

\* C13: a graduated student employed in the previous period and employed
\* again, with growth_rate + inflation_rate > 0, has an earnings_power not
\* below the previous one, also when the earnings ceiling is binding.
C13_EarningsPowerMonotone ==
  [][ \A n \in StudentIdx :
        (/\ students[n].is_graduated
         /\ students[n].is_employed
         /\ students'[n].is_employed
         /\ students[n].degree.experience_growth + year.inflation_rate > 0)
        => students'[n].earnings_power >= students[n].earnings_power ]_vars

\* C13 witness: a student employed in three consecutive periods whose
\* earnings grew from the second to the third while below the ceiling, and
\* a student who stayed at the ceiling over two periods, inflation being negative.
C13_Witness ==
  /\ year.inflation_rate < 0
  /\ \E n \in StudentIdx : \E t \in 1..(Len(students[n].earnings) - 2) :
       /\ \A u \in t..(t + 2) : students[n].employment_history[u]
       /\ students[n].earnings[t + 1] < students[n].earnings[t + 2]
       /\ students[n].earnings[t + 2] < MaxEarnings(students[n])
  /\ \E n \in StudentIdx : \E t \in 1..(Len(students[n].earnings) - 1) :
       /\ students[n].employment_history[t]
       /\ students[n].employment_history[t + 1]
       /\ students[n].earnings[t] = MaxEarnings(students[n])
       /\ students[n].earnings[t + 1] = MaxEarnings(students[n])

\* the real payments the students made in a period
RECURSIVE PeriodReturns(_, _)
PeriodReturns(roster, period) ==
  IF roster = <<>> THEN 0
  ELSE LET s == roster[1]
           rel == period - s.start_year
       IN (IF rel >= 0 /\ rel < Len(s.real_payments) THEN s.real_payments[rel + 1] ELSE 0)
          + PeriodReturns(Tail(roster), period)

\* C14: in a run given a callback, the callback is invoked exactly once for
\* each period 0..num_years-1, in increasing order, after the period's
\* end_year accounting and reinvestment, with the period index, the cash,
\* total_contracts, the number of active contracts, the period's returns
\* and the cumulative exits.
C14_CallbackOncePerPeriod ==
  [][ cfg.has_callback
      => /\ \A k \in 1..Len(yearly_data') : yearly_data'[k].year = k - 1
         /\ pc' \in {"loop", "reinvest", "callback"} => Len(yearly_data') = i'
         /\ pc' \in {"sweep", "swept", "done"} => Len(yearly_data') = cfg.num_years
         /\ yearly_data' # yearly_data
            => /\ pc = "callback"
               /\ Len(pool.yearly_cash) = i + 2
               /\ pool.yearly_returns = 0
               /\ todo = 0 \/ invest_ret = "False"
               /\ yearly_data' =
                    Append(yearly_data,
                           [year |-> i, cash |-> pool.available_funds,
                            total_contracts |-> Len(Contracts),
                            active_contracts |->
                              Cardinality({k \in ContractIdx : Contracts[k].is_active}),
                            returns |-> PeriodReturns(students, i),
                            exits |-> Len(Contracts)
                                      - Cardinality({k \in ContractIdx :
                                                       Contracts[k].is_active})]) ]_vars

\* C14 witness: a finished run with a callback that was called in every
\* period, with positive returns in one, and saw a reinvestment and an exit.
C14_Witness ==
  /\ pc = "done"
  /\ cfg.has_callback
  /\ Len(yearly_data) = cfg.num_years
  /\ cfg.num_years >= 2
  /\ \E k \in 1..Len(yearly_data) : yearly_data[k].returns > 0
  /\ \E k \in 1..Len(yearly_data) :
       /\ yearly_data[k].total_contracts > NumInitial
       /\ yearly_data[k].exits > 0
       /\ yearly_data[k].active_contracts > 0

\* what run_impact_simulation returns for a batch made of this run alone
Batch == RunImpactSimulation(<<result>>)

\* C15: for a batch of exactly one run, every aggregated metric (average
\* utility gain, earnings gain, remittance gain, total payments, students
\* funded, IRR and each time-series entry) equals the value of that run's
\* raw output.
C15_BatchOfOneIsTheRun ==
  pc = "done"
  => /\ Batch.impact_metrics.avg_utility_gain
          = result.student_metrics.avg_total_utility_gain
     /\ Batch.impact_metrics.avg_earnings_gain = result.student_metrics.avg_earnings_gain
     /\ Batch.impact_metrics.avg_remittance_gain
          = result.student_metrics.avg_remittance_gain
     /\ Batch.financial_metrics.avg_total_payments = result.total_payments
     /\ Batch.financial_metrics.avg_students_funded = result.total_students
     /\ Batch.irr = result.irr
     /\ Batch.student_outcomes.avg_irr = result.irr
     /\ result.yearly_data # <<>>
        => /\ DOMAIN Batch.time_series = {"cash", "returns", "active_contracts"}
           /\ \A f \in DOMAIN Batch.time_series :
                /\ Len(Batch.time_series[f]) = Len(result.yearly_data)
                /\ \A t \in 1..Len(result.yearly_data) :
                     Batch.time_series[f][t] = result.yearly_data[t][f]

\* C15 witness: a finished run with graduates, payments and a time series,
\* whose metrics are not zero, aggregated alone.
C15_Witness ==
  /\ pc = "done"
  /\ result.students_educated > 0
  /\ result.total_payments > 0
  /\ result.student_metrics.avg_earnings_gain > 0
  /\ result.student_metrics.avg_total_utility_gain > 0
  /\ result.irr # 0
  /\ Len(result.yearly_data) >= 2
  /\ \E t \in 1..Len(result.yearly_data) : result.yearly_data[t].returns > 0
  /\ Batch.financial_metrics.avg_total_payments = result.total_payments

\* no student of the roster has graduated
NobodyGraduated == \A n \in StudentIdx : ~students[n].is_graduated

\* C18: a run in which no student ever graduates completes without error
\* and returns every per-student averaged impact metric as 0; no division
\* by the zero graduate count is made.
C18_NoGraduatesNoDivision ==
  /\ pc = "swept" /\ NobodyGraduated
     => /\ StudentMetrics(students, year) = DefaultStudentMetrics
        /\ TotalExits(pool) = pool.total_contracts
  /\ pc = "error" /\ i = cfg.num_years /\ error \in {"ZeroDivisionError", "AssertionError"}
     => ~NobodyGraduated
  /\ pc = "done" /\ NobodyGraduated
     => /\ error = "None"
        /\ \A f \in DOMAIN result.student_metrics : result.student_metrics[f] = 0
        /\ result.students_educated = 0

\* C18 witness: a finished run with contracts in which nobody graduated.
C18_Witness ==
  /\ pc = "done"
  /\ NobodyGraduated
  /\ Len(students) >= NumInitial
  /\ pool.total_contracts >= 1
  /\ result.total_students = Len(students)
  /\ result.student_metrics = DefaultStudentMetrics

\* C16: a run whose program_type is not University, Nurse or Trade fails
\* with a configuration error at run start, before any student or contract
\* is created, whatever ISA terms, price_per_student or degree_params are
\* supplied.
C16_UnknownProgramFailsAtStart ==
  cfg.program_type \notin KnownPrograms
  => /\ pc \in {"start", "error"}
     /\ pc = "error" => error = "ValueError"
     /\ students = <<>>
     /\ Contracts = <<>>

\* C17: a run configured with a price_per_student of zero or less fails
\* with a configuration error at run start, before any contract is created
\* or any cash is moved.
C17_NonPositivePriceFailsAtStart ==
  cfg.price_per_student # NoneVal /\ cfg.price_per_student <= 0
  => /\ pc \in {"start", "error"}
     /\ pc = "error" => error = "ValueError"
     /\ Contracts = <<>>
     /\ pool = NoPool

\* the contracts carrying the id of a student
ContractsOf(s) == {k \in ContractIdx : Contracts[k].student_id = s.id}

\* C19: once a student's contract is inactive, for whatever reason, no later
\* period records an ISA payment for the student, and the pool's cash and
\* period returns are not increased on the student's account.
C19_NoPaymentAfterExit ==
  [][ pc = "loop" /\ j < Len(students)
      => LET s == students[j + 1]
         IN (/\ ContractsOf(s) # {}
             /\ \A k \in ContractsOf(s) : ~Contracts[k].is_active)
            => /\ students'[j + 1].payments = s.payments
               /\ pool'.available_funds = pool.available_funds
               /\ pool'.yearly_returns = pool.yearly_returns ]_vars

\* the ISA payments the students of the roster have made
RECURSIVE PaymentsMade(_)
PaymentsMade(roster) ==
  IF roster = <<>> THEN 0 ELSE SumSeq(roster[1].payments) + PaymentsMade(Tail(roster))

\* C20: at the end of every period each contract's total_payments equals
\* the sum of the payments recorded for its student, so the total_payments
\* the run reports equals the sum of all ISA payments the students made,
\* the final payment that reaches the cap included.
C20_ContractTotalsMatchStudents ==
  /\ pc \in {"callback", "sweep", "swept", "done"}
     => \A k \in ContractIdx :
          Holder(Contracts[k]) # 0
          => Contracts[k].total_payments
               = SumSeq(students[Holder(Contracts[k])].payments)
  /\ pc = "done" => result.total_payments = PaymentsMade(students)

\* the periods in which an ISA payment was collected from student s
PaidPeriods(s) == {t \in 1..Len(s.payments) : s.payments[t] > 0}

\* C21: a student whose earnings exceeded the threshold in ten
\* post-graduation periods without reaching the payment cap has made
\* exactly ten payments when the 10-year cap ends the contract: the number
\* of collected payments equals the term limit.
C21_TenPaymentsThenYearsCap ==
  \A n \in StudentIdx :
    (students[n].years_paid >= YearsPaidCap /\ ~students[n].hit_cap)
    => Cardinality(PaidPeriods(students[n])) = YearsPaidCap

\* C22: a student on a non-completion (NA) track is never graduated, in a
\* variant without a language-acquisition phase as well as in one with it,
\* and once the run has ended its contract has left as home_return.
C22_NonCompletionNeverGraduates ==
  /\ \A n \in StudentIdx :
        students[n].degree.name = "NA" => ~students[n].is_graduated
  /\ pc = "done"
     => \A k \in ContractIdx :
          (Holder(Contracts[k]) # 0
           /\ students[Holder(Contracts[k])].degree.name = "NA")
          => Contracts[k].exit_reason = "home_return"

\* length of the run of unemployed periods that ends in relative period
\* rel, counted from the period of graduation
UnemployedRun(s, rel) ==
  LET g == s.german_learning_years + s.actual_years_to_complete
  IN Cardinality({t \in (g + 1)..(rel + 1) :
                    \A u \in t..(rel + 1) : ~s.employment_history[u]})

\* C23: in the run loop the unemployment spell of a graduated student who
\* has not returned home is the length of the current run of unemployed
\* periods since graduation; a contract is marked default only in a period
\* where its graduated, non-returning, uncapped student is unemployed with
\* a spell above 2, and in every such period the student's contract is
\* inactive afterwards.
C23_DefaultAfterTwoUnemployedPeriods ==
  [][ (pc = "loop" /\ j < Len(students) /\ i >= students[j + 1].start_year)
      => LET s == students'[j + 1]
             rel == i - s.start_year
             overdue == /\ s.is_graduated /\ ~s.is_home /\ ~s.hit_cap
                        /\ s.current_unemployment_spell > DefaultSpell
         IN /\ (s.is_graduated /\ ~s.is_home)
               => s.current_unemployment_spell = UnemployedRun(s, rel)
            /\ \A k \in ContractIdx :
                 (Contracts[k].is_active
                  /\ pool'.contracts[k].exit_reason = "default")
                 => /\ Contracts[k].student_id = s.id
                    /\ overdue
                    /\ ~s.is_employed
            /\ overdue
               => \A k \in ContractsOf(s) : ~pool'.contracts[k].is_active ]_vars

\* a contract marked default by the loop in the period where the spell of
\* its student reached three periods
C23_Witness ==
  /\ pc = "loop"
  /\ \E k \in ContractIdx :
       /\ Contracts[k].exit_reason = "default"
       /\ Holder(Contracts[k]) # 0
       /\ LET s == students[Holder(Contracts[k])]
          IN /\ Stepped(Holder(Contracts[k]))
             /\ s.current_unemployment_spell = DefaultSpell + 1
             /\ ~s.is_employed

\* C24: a non-zero ISA payment is recorded for a period only if in that
\* period the student is graduated, has not returned home, had not hit the
\* payment cap before, and earns strictly more than the ISA threshold; in
\* every other period the recorded payment is 0.
C24_PaymentOnlyWhenDue ==
  \A n \in StudentIdx :
    LET s == students[n]
    IN \A t \in 1..Len(s.payments) :
         s.payments[t] # 0
         => /\ s.is_graduated
            /\ HasGraduated(s, t - 1)
            /\ ~s.is_home
            /\ SumSeq(SubSeq(s.payments, 1, t - 1)) < year.isa_cap
            /\ s.earnings[t] > year.isa_threshold

\* a graduate with a period of earnings at or below the threshold without a
\* payment, and a later period with a payment
C24_Witness ==
  \E n \in StudentIdx :
    LET s == students[n]
    IN \E t, u \in 1..Len(s.payments) :
         /\ u < t
         /\ HasGraduated(s, u - 1)
         /\ s.earnings[u] <= year.isa_threshold
         /\ s.payments[u] = 0
         /\ s.payments[t] > 0

\* C25: once the run loop has ended, counterfactual earnings have been
\* computed and recorded for every student, of the initial cohort and of the
\* reinvestment cohorts, for every relative period 0, 1, 2, ... from its
\* start period to the last period of the run.  (Counterfactual earnings
\* are positive while the student is below life expectancy; an entry that
\* is still 0 was never written.)
C25_EveryRelativePeriodRecorded ==
  pc \in {"sweep", "swept", "done"}
  => \A n \in StudentIdx :
       LET s == students[n]
       IN \A rel \in 0..(cfg.num_years - 1 - s.start_year) :
            ~PastLifeExpectancy(rel) => s.counterfactual_earnings[rel + 1] > 0

\* C26: after the initial cohort, students and contracts are created only
\* in periods i < num_years - 15, one student at a time, and the new
\* student's start_year is the period in which it is created; nothing is
\* created in the last 15 periods of the horizon.
C26_ReinvestOnlyBeforeCutoff ==
  [][ (pc # "cohort"
       /\ (Len(students') # Len(students)
           \/ Len(pool'.contracts) # Len(pool.contracts)))
      => /\ i < cfg.num_years - ReinvestCutoff
         /\ Len(students') = Len(students) + 1
         /\ students'[Len(students')].start_year = i
         /\ \A n \in (NumInitial + 1)..Len(students') :
              students'[n].start_year < cfg.num_years - ReinvestCutoff ]_vars

\* a run in its last 15 periods with a student enrolled by a reinvestment
\* after period 0
C26_Witness ==
  /\ pc = "loop"
  /\ i >= cfg.num_years - ReinvestCutoff
  /\ \E n \in StudentIdx : n > NumInitial /\ students[n].start_year >= 1

\* C27: every iteration of a reinvestment step adds one student and one
\* contract for it, its invest call succeeds, and the pool's available cash
\* after it is at least the cash reserve, 2% of the initial investment.
C27_ReinvestKeepsReserve ==
  [][ pc = "reinvest"
      => /\ invest_ret' = "True"
         /\ Len(students') = Len(students) + 1
         /\ Len(pool'.contracts) = Len(pool.contracts) + 1
         /\ pool'.total_contracts = pool.total_contracts + 1
         /\ pool'.available_funds * 100 >= cfg.initial_investment * ReservePct ]_vars

\* a reinvestment step that has just funded a student, the period's
\* callback pending
C27_Witness ==
  /\ pc = "callback"
  /\ invest_ret = "True"
  /\ Len(students) > NumInitial
  /\ students[Len(students)].start_year = i
  /\ pool.available_funds * 100 >= cfg.initial_investment * ReservePct

\* max_salary_multiplier of the DegreeParams the student's degree was built
\* from, in 1/RateScale
ConfiguredMultiplier(s) ==
  LET k == CHOOSE k \in 1..Len(cfg.degree_params) :
             cfg.degree_params[k][1].name = s.degree.name
  IN cfg.degree_params[k][1].max_salary_multiplier

\* C28: in every employed post-graduation period a student's earnings_power
\* is at most mean_initial_earnings x the max_salary_multiplier configured
\* in its DegreeParams x deflator, whatever the configured multiplier is.
C28_EarningsPowerWithinConfiguredCeiling ==
  \A n \in StudentIdx :
    LET s == students[n]
    IN (s.is_graduated /\ s.is_employed)
       => s.earnings_power
            <= TimesDeflator((s.degree.mean_earnings * ConfiguredMultiplier(s)) \div RateScale,
                             year.deflator)

\* the contracts of pool p that left for the given reason
ExitedAs(p, reason) ==
  {k \in 1..Len(p.contracts) :
     ~p.contracts[k].is_active /\ p.contracts[k].exit_reason = reason}

\* C30: in every reachable state, and in every snapshot handed to the
\* callback, total_contracts is the number of active contracts plus the sum
\* of the four per-reason exit counters, and each contract is counted once:
\* it is active without an exit reason, or inactive and counted by the
\* counter of its one exit reason.
C30_ContractsAccountedFor ==
  /\ pool.total_contracts = ActiveContracts(pool) + TotalExits(pool)
  /\ pool.total_contracts = Len(pool.contracts)
  /\ \A r \in Reasons : pool.exits[r] = Cardinality(ExitedAs(pool, r))
  /\ \A k \in ContractIdx :
       IF Contracts[k].is_active
       THEN Contracts[k].exit_reason = "None"
       ELSE Contracts[k].exit_reason \in Reasons
  /\ \A t \in 1..Len(yearly_data) :
       yearly_data[t].total_contracts
         = yearly_data[t].active_contracts + yearly_data[t].exits

\* a snapshot taken while some contracts are active and others have left
C30_Witness ==
  /\ pc = "loop"
  /\ Len(yearly_data) > 0
  /\ yearly_data[Len(yearly_data)].active_contracts > 0
  /\ yearly_data[Len(yearly_data)].exits > 0
  /\ ActiveContracts(pool) > 0
  /\ TotalExits(pool) > 0

\* C29: in simulate_simple, where next_year re-indexes isa_cap every period
\* with an inflation rate kept within [-0.02, 0.15], the cumulative nominal
\* payments of every student are at most the current isa_cap when the
\* student loop of a period has ended, on every inflation path.
C29_SimplePaymentsWithinCurrentCap ==
  (pc = "simple" /\ i < cfg.num_years /\ j = Len(students))
  => \A n \in 1..Len(students) : SumSeq(students[n].payments) <= year.isa_cap

====
